---- MODULE Spec2Model ----
(***************************************************************************)
(* Model of src/app.py: the "Run Fraud Check" handler of the dashboard and *)
(* the job-run client run_notebook (submit -> poll until terminal -> fetch *)
(* output -> parse), together with the 300 s result cache that decorates   *)
(* run_notebook.  The remote job-execution API, the clock and the operator *)
(* typing into the text input are the environment.                         *)
(*                                                                         *)
(* The script is single threaded and blocks on every HTTP call and on      *)
(* time.sleep, so the handler is cut into steps exactly at its blocking    *)
(* points: a step runs from one blocking call to the next.                 *)
(***************************************************************************)
EXTENDS Integers, Sequences, FiniteSets, TLC

VARIABLES
    pc,            \* where the script is blocked: "idle", "submit_wait",
                   \* "poll_wait", "sleeping", "output_wait"
    phone_number,  \* value of the text input at the last click
    clicks,        \* number of clicks of "Run Fraud Check" so far
    cache,         \* entries of st.cache_data(ttl=300) for run_notebook
    since_return,  \* seconds since run_notebook last returned, up to ttl
    job_phone,     \* base_parameters.phone_number of the last submit
    response,      \* run_notebook's local response (the submit response)
    run_id,        \* run_notebook's local run_id, 0 while there is none
    output_response, \* run_notebook's local output_response
    remote,        \* the run as the job-execution API knows it
    status_response, \* run_notebook's local status_response (last body)
    backoff,       \* run_notebook's local backoff, a fraction <<num, den>>
    sleeps,        \* durations passed to time.sleep in this invocation
    reqs,          \* HTTP requests issued while handling the last click
    inflight,      \* HTTP requests issued and not yet answered
    ret,           \* the pair run_notebook returned to the handler
    served,        \* how the last click got its pair: "none","fresh","cache"
    ui             \* what the handler displayed for the last click

vars == <<pc, phone_number, clicks, cache, since_return, job_phone, response,
          run_id, output_response, remote, status_response, backoff, sleeps,
          reqs, inflight, ret, served, ui>>

(***************************************************************************)
(* Bounds of the exploration.                                              *)
(***************************************************************************)
MaxClicks == 2
MaxSleeps == 6

(***************************************************************************)
(* Python values that flow through run_notebook's second return value.     *)
(* A dict is represented by its key set and the value of its "error"       *)
(* entry; a str by its text.                                               *)
(***************************************************************************)
PyNone == [kind |-> "None", keys |-> {}, text |-> ""]
PyStr(s) == [kind |-> "str", keys |-> {}, text |-> s]
PyDict(ks, err) == [kind |-> "dict", keys |-> ks, text |-> err]

\* Python truthiness of a value (None, "" and {} are falsy).
Truthy(v) ==
    CASE v.kind = "None" -> FALSE
      [] v.kind = "str"  -> v.text # ""
      [] v.kind = "dict" -> v.keys # {}

NoRet == [result |-> "", output |-> PyNone]
NoUi == [kind |-> "none", prefix |-> "", text |-> ""]

(***************************************************************************)
(* The text input and phone_number.strip().  A text is a sequence of       *)
(* one-character strings.                                                  *)
(***************************************************************************)
Whitespace == {" ", "\t"}

RECURSIVE lstrip(_)
lstrip(s) ==
    IF s # <<>> /\ Head(s) \in Whitespace THEN lstrip(Tail(s)) ELSE s

RECURSIVE rstrip(_)
rstrip(s) ==
    IF s # <<>> /\ s[Len(s)] \in Whitespace
    THEN rstrip(SubSeq(s, 1, Len(s) - 1))
    ELSE s

\* str.strip(): leading and trailing whitespace removed, the inside kept.
strip(s) == rstrip(lstrip(s))

\* What the operator may have typed when the button is clicked.
PhoneInputs ==
    { <<>>,
      <<" ", "\t">>,
      <<"7">>,
      <<" ", "7", " ">>,
      <<"8", " ", "8">>,
      <<"\t", "8", " ", "8">> }

\* The arguments run_notebook can be called with.
PhoneKeys == { strip(i) : i \in PhoneInputs } \ { <<>> }

(***************************************************************************)
(* The remote job-execution API, as far as run_notebook reads it.          *)
(***************************************************************************)
Missing == "<missing>"

\* life_cycle_state values; "QUEUED" stands for a string the loop does not
\* name.
NonTerminalStates == {"PENDING", "RUNNING", "TERMINATING", "QUEUED"}
TerminalStates == {"TERMINATED", "SKIPPED", "INTERNAL_ERROR"}
LifeCycleStates == NonTerminalStates \cup TerminalStates

\* result_state values of a finished run; Missing: the key is absent.
ResultStates == {"SUCCESS", "FAILED", "TIMEDOUT", "CANCELED", Missing}

NoResponse == [status_code |-> 0, has_run_id |-> FALSE, text |-> ""]
NoOutput ==
    [status_code |-> 0, has_output |-> FALSE, has_result |-> FALSE,
     result |-> ""]

NoRun == [life_cycle_state |-> Missing, result_state |-> Missing]

\* Responses to POST /api/2.1/jobs/runs/submit.
SubmitResponses ==
    { [status_code |-> 200, has_run_id |-> TRUE,  text |-> "{run_id}"],
      [status_code |-> 200, has_run_id |-> FALSE, text |-> "{}"],
      [status_code |-> 400, has_run_id |-> FALSE, text |-> "bad request"],
      [status_code |-> 500, has_run_id |-> FALSE, text |-> "server error"] }

\* The strings a notebook may have exited with.
S_FULL == "{prediction, anomaly_score, time_taken_seconds, ...}"
S_NOTIME == "{prediction, anomaly_score, ...}"
S_ERR == "{error: no data}"
S_EMPTY == "{}"
S_NULL == "null"
S_RAW == "done, not json"
S_BLANK == ""

ResultStrings == {S_FULL, S_NOTIME, S_ERR, S_EMPTY, S_NULL, S_RAW, S_BLANK}

PayloadKeys ==
    {"prediction", "anomaly_score", "time_taken_seconds",
     "feature_importance", "feature_contributions", "base_value"}

\* Responses to GET /api/2.1/jobs/runs/get-output.  has_output: the body has
\* "notebook_output"; has_result: that object has "result".
OutputResponses ==
    { [status_code |-> 200, has_output |-> TRUE, has_result |-> TRUE,
       result |-> s] : s \in ResultStrings }
    \cup
    { [status_code |-> 200, has_output |-> FALSE, has_result |-> FALSE,
       result |-> ""],
      [status_code |-> 200, has_output |-> TRUE, has_result |-> FALSE,
       result |-> ""],
      [status_code |-> 404, has_output |-> FALSE, has_result |-> FALSE,
       result |-> ""] }

(***************************************************************************)
(* json.loads on the strings above: the decoded value, or a failure.       *)
(***************************************************************************)
json_loads(s) ==
    CASE s = S_FULL   -> [ok |-> TRUE, value |-> PyDict(PayloadKeys, "")]
      [] s = S_NOTIME -> [ok |-> TRUE,
                          value |-> PyDict(PayloadKeys \ {"time_taken_seconds"}, "")]
      [] s = S_ERR    -> [ok |-> TRUE, value |-> PyDict({"error"}, "no data")]
      [] s = S_EMPTY  -> [ok |-> TRUE, value |-> PyDict({}, "")]
      [] s = S_NULL   -> [ok |-> TRUE, value |-> PyNone]
      [] OTHER        -> [ok |-> FALSE, value |-> PyNone]

(***************************************************************************)
(* The pure pieces of run_notebook.                                        *)
(***************************************************************************)
max_backoff == 5
ttl == 300

\* Variant: SKIPPED left out of the final states.
IsTerminal_NoSkipped(state) == state \in {"TERMINATED", "INTERNAL_ERROR"}

\* Variant: TERMINATING taken for a final state.
IsTerminal_Terminating(state) ==
    state \in {"TERMINATED", "TERMINATING", "SKIPPED", "INTERNAL_ERROR"}

\* The loop's exit test.
IsTerminal(state) == state \in {"TERMINATED", "SKIPPED", "INTERNAL_ERROR"}

\* min(backoff, max_backoff) on fractions.
SleepTime(b) == IF b[1] <= max_backoff * b[2] THEN b ELSE <<max_backoff, 1>>

\* Variant: backoff *= 2
Grow_Double(b) == <<b[1] * 2, b[2]>>

\* backoff *= 1.5
Grow(b) == <<b[1] * 3, b[2] * 2>>

\* notebook_output_state.get("result_state", "UNKNOWN")
ResultStateOf(status) ==
    IF status.result_state = Missing THEN "UNKNOWN" ELSE status.result_state

\* Variant: the output fetched for every run that did not fail.
WantsOutput_NotFailed(result_state) == result_state # "FAILED"

\* Whether the output is fetched at all.
WantsOutput(result_state) == result_state = "SUCCESS"

\* Variant: a string that does not decode is dropped.
ParseOutput_DropRaw(resp) ==
    IF resp.status_code = 200 /\ resp.has_output /\ resp.has_result
    THEN json_loads(resp.result).value
    ELSE PyNone

\* notebook_output as computed from the get-output response.
ParseOutput(resp) ==
    IF resp.status_code = 200
    THEN LET notebook_output ==
                 IF resp.has_output /\ resp.has_result
                 THEN PyStr(resp.result)
                 ELSE PyNone
         IN  IF notebook_output.kind = "str"
             THEN LET d == json_loads(notebook_output.text)
                  IN  IF d.ok THEN d.value ELSE notebook_output
             ELSE notebook_output
    ELSE PyNone

\* Variant: the response body returned bare, not wrapped in a dict.
SubmitRejected_Bare(resp) ==
    [result |-> "FAILED", output |-> PyStr(resp.text)]

\* The pair returned when the submit request is rejected.
SubmitRejected(resp) ==
    [result |-> "FAILED", output |-> PyDict({"error"}, resp.text)]

(***************************************************************************)
(* What the handler displays for a pair (result, notebook_output).         *)
(* kind "success": the result view; "st.error": an error message made of   *)
(* prefix and text; "exception": the script run died with the exception    *)
(* named in text, which the handler does not catch.                        *)
(***************************************************************************)
Exception(type) == [kind |-> "exception", prefix |-> "", text |-> type]

\* The strings of the model that contain the substring "error".
ContainsError(text) == text \in {S_ERR, "server error"}

\* The result view: the first subscript or format that fails decides.
\* Line 164 formats .get('time_taken_seconds', '?') with :.2f, which raises
\* ValueError on the placeholder.  (Line 209 of the file carries a stray
\* indent; the statements are modelled in the order they are written.)
SuccessView(notebook_output) ==
    IF notebook_output.kind # "dict"
    THEN Exception("TypeError")
    ELSE IF "prediction" \notin notebook_output.keys
              \/ "anomaly_score" \notin notebook_output.keys
         THEN Exception("KeyError")
         ELSE IF "time_taken_seconds" \notin notebook_output.keys
              THEN Exception("ValueError")
              ELSE IF {"feature_importance", "feature_contributions",
                       "base_value"} \subseteq notebook_output.keys
                   THEN [kind |-> "success", prefix |-> "", text |-> ""]
                   ELSE Exception("KeyError")

\* The test of the elif: "error" in notebook_output.
ErrorIn(notebook_output) ==
    CASE notebook_output.kind = "dict" ->
             [raises |-> FALSE, value |-> "error" \in notebook_output.keys]
      [] notebook_output.kind = "str" ->
             [raises |-> FALSE, value |-> ContainsError(notebook_output.text)]
      [] OTHER -> [raises |-> TRUE, value |-> FALSE]

\* The if / elif / else of the handler.
Render(r) ==
    IF r.result = "SUCCESS" /\ Truthy(r.output)
    THEN SuccessView(r.output)
    ELSE LET t == ErrorIn(r.output)
         IN  IF t.raises
             THEN Exception("TypeError")
             ELSE IF t.value
                  THEN IF r.output.kind = "dict"
                       THEN [kind |-> "st.error", prefix |-> "Error",
                             text |-> r.output.text]
                       ELSE Exception("TypeError")
                  ELSE [kind |-> "st.error", prefix |-> "Job failed",
                        text |-> r.result]

Warning ==
    [kind |-> "st.warning", prefix |-> "",
     text |-> "Please enter a valid phone number."]

(***************************************************************************)
(* The cache of st.cache_data(ttl=300): a set of entries, at most one per  *)
(* argument, each with the seconds since it was stored.  An entry is       *)
(* written when run_notebook returns, never when it raises.                *)
(***************************************************************************)
\* The seconds that may pass between two steps.
Delays == {120}

Cached(key) == { e \in cache : e.key = key }

Store(c, key, r) ==
    { e \in c : e.key # key } \cup { [key |-> key, ret |-> r, age |-> 0] }

\* Variant: the decorator without its ttl.
Alive_Forever(e, d) == TRUE

\* Entries live while younger than ttl.
Alive(e, d) == e.age + d < ttl

Aged(c, d) ==
    { [e EXCEPT !.age = IF e.age + d >= ttl THEN ttl ELSE e.age + d] :
          e \in { x \in c : Alive(x, d) } }

(***************************************************************************)
(* The handler of the "Run Fraud Check" button and run_notebook.           *)
(***************************************************************************)
\* Variant: the test without the strip.
ValidPhone_NoStrip(input) == input # <<>>

\* if phone_number.strip():
ValidPhone(input) == strip(input) # <<>>

\* The argument of run_notebook(phone_number.strip()).
Argument(input) == strip(input)

\* run_notebook's local run_state.
run_state == status_response.life_cycle_state

Init ==
    /\ pc = "idle"
    /\ phone_number = <<>>
    /\ clicks = 0
    /\ cache = {}
    /\ since_return = ttl
    /\ job_phone = <<>>
    /\ response = NoResponse
    /\ run_id = 0
    /\ output_response = NoOutput
    /\ remote = NoRun
    /\ status_response = NoRun
    /\ backoff = <<1, 1>>
    /\ sleeps = <<>>
    /\ reqs = <<>>
    /\ inflight = {}
    /\ ret = NoRet
    /\ served = "none"
    /\ ui = NoUi

\* A click starts a new script run: nothing of the previous run is left
\* but the cache.
NewRun(input) ==
    /\ pc = "idle"
    /\ clicks < MaxClicks
    /\ clicks' = clicks + 1
    /\ phone_number' = input
    /\ response' = NoResponse
    /\ run_id' = 0
    /\ output_response' = NoOutput
    /\ remote' = NoRun
    /\ status_response' = NoRun
    /\ backoff' = <<1, 1>>
    /\ sleeps' = <<>>

\* run_notebook returns r: the cache stores it and the handler displays it.
Return(r) ==
    /\ ret' = r
    /\ cache' = Store(cache, Argument(phone_number), r)
    /\ since_return' = 0
    /\ ui' = Render(r)
    /\ served' = "fresh"
    /\ pc' = "idle"

\* Variant: the exception is caught and turned into a returned pair, which
\* the cache then stores.
Raise_Caught(type) ==
    Return([result |-> "FAILED", output |-> PyDict({"error"}, type)])

\* run_notebook raises: nothing is stored, the script run ends.
Raise(type) ==
    /\ ret' = NoRet
    /\ UNCHANGED <<cache, since_return>>
    /\ ui' = Exception(type)
    /\ served' = "none"
    /\ pc' = "idle"

\* Click with an empty or all-whitespace input.
ClickEmpty(input) ==
    /\ NewRun(input)
    /\ ~ValidPhone(input)
    /\ ui' = Warning
    /\ ret' = NoRet
    /\ served' = "none"
    /\ reqs' = <<>>
    /\ UNCHANGED <<pc, cache, since_return, job_phone, inflight>>

\* Click whose argument has a live cache entry: run_notebook's body is not
\* run.
ClickCached(input) ==
    /\ NewRun(input)
    /\ ValidPhone(input)
    /\ Cached(Argument(input)) # {}
    /\ \E e \in Cached(Argument(input)) :
          /\ ret' = e.ret
          /\ ui' = Render(e.ret)
    /\ served' = "cache"
    /\ reqs' = <<>>
    /\ UNCHANGED <<pc, cache, since_return, job_phone, inflight>>

\* Click that runs run_notebook up to the submit request.
ClickSubmit(input) ==
    /\ NewRun(input)
    /\ ValidPhone(input)
    /\ Cached(Argument(input)) = {}
    /\ job_phone' = Argument(input)
    /\ reqs' = <<"submit">>
    /\ inflight' = {"submit"}
    /\ pc' = "submit_wait"
    /\ ret' = NoRet
    /\ served' = "none"
    /\ ui' = NoUi
    /\ UNCHANGED <<cache, since_return>>

\* The submit response arrives.
SubmitResponse(resp) ==
    /\ pc = "submit_wait"
    /\ response' = resp
    /\ IF resp.status_code # 200
       THEN /\ Return(SubmitRejected(resp))
            /\ inflight' = {}
            /\ UNCHANGED <<run_id, remote, reqs>>
       ELSE IF ~resp.has_run_id
            THEN /\ Raise("KeyError")
                 /\ inflight' = {}
                 /\ UNCHANGED <<run_id, remote, reqs>>
            ELSE /\ run_id' = clicks
                 /\ remote' = [life_cycle_state |-> "PENDING",
                               result_state |-> Missing]
                 /\ reqs' = Append(reqs, "status")
                 /\ inflight' = {"status"}
                 /\ pc' = "poll_wait"
                 /\ UNCHANGED <<cache, since_return, ret, served, ui>>
    /\ UNCHANGED <<phone_number, clicks, job_phone, output_response,
                   status_response, backoff, sleeps>>

\* A status response arrives; wellformed: its body has
\* state.life_cycle_state.
StatusResponse(wellformed) ==
    /\ pc = "poll_wait"
    /\ IF ~wellformed
       THEN /\ Raise("KeyError")
            /\ inflight' = {}
            /\ UNCHANGED <<status_response, sleeps, reqs>>
       ELSE /\ status_response' = remote
            /\ IF IsTerminal(remote.life_cycle_state)
               THEN IF WantsOutput(ResultStateOf(remote))
                    THEN /\ reqs' = Append(reqs, "output")
                         /\ inflight' = {"output"}
                         /\ pc' = "output_wait"
                         /\ UNCHANGED <<cache, since_return, ret, served,
                                        ui, sleeps>>
                    ELSE /\ Return([result |-> ResultStateOf(remote),
                                    output |-> PyNone])
                         /\ inflight' = {}
                         /\ UNCHANGED <<sleeps, reqs>>
               ELSE /\ Len(sleeps) < MaxSleeps
                    /\ sleeps' = Append(sleeps, SleepTime(backoff))
                    /\ inflight' = {}
                    /\ pc' = "sleeping"
                    /\ UNCHANGED <<cache, since_return, ret, served, ui,
                                   reqs>>
    /\ UNCHANGED <<phone_number, clicks, job_phone, response, run_id,
                   output_response, remote, backoff>>

\* Variant: the loop encloses the submit, which is issued again.
SleepDone_Resubmit ==
    /\ pc = "sleeping"
    /\ backoff' = Grow(backoff)
    /\ reqs' = Append(reqs, "submit")
    /\ inflight' = {"submit"}
    /\ pc' = "submit_wait"
    /\ UNCHANGED <<phone_number, clicks, cache, since_return, job_phone,
                   response, run_id, output_response, remote,
                   status_response, sleeps, ret, served, ui>>

\* time.sleep returns: the backoff grows and the next poll is issued.
SleepDone ==
    /\ pc = "sleeping"
    /\ backoff' = Grow(backoff)
    /\ reqs' = Append(reqs, "status")
    /\ inflight' = {"status"}
    /\ pc' = "poll_wait"
    /\ UNCHANGED <<phone_number, clicks, cache, since_return, job_phone,
                   response, run_id, output_response, remote,
                   status_response, sleeps, ret, served, ui>>

\* The get-output response arrives.
OutputResponse(resp) ==
    /\ pc = "output_wait"
    /\ output_response' = resp
    /\ Return([result |-> ResultStateOf(status_response),
               output |-> ParseOutput(resp)])
    /\ inflight' = {}
    /\ UNCHANGED <<phone_number, clicks, job_phone, response, run_id, remote,
                   status_response, backoff, sleeps, reqs>>

(***************************************************************************)
(* The environment.                                                        *)
(***************************************************************************)
RunStates ==
    { [life_cycle_state |-> l, result_state |-> Missing] :
          l \in NonTerminalStates }
    \cup
    { [life_cycle_state |-> l, result_state |-> r] :
          l \in TerminalStates, r \in ResultStates }

\* The remote run moves on; a finished run stays as it is.
RemoteStep(next) ==
    /\ pc \in {"poll_wait", "sleeping"}
    /\ remote.life_cycle_state \in NonTerminalStates
    /\ next # remote
    /\ remote' = next
    /\ UNCHANGED <<pc, phone_number, clicks, cache, since_return, job_phone,
                   response, run_id, output_response, status_response,
                   backoff, sleeps, reqs, inflight, ret, served, ui>>

\* Time passes: entries age and the expired ones are gone.
Tick(d) ==
    /\ cache' = Aged(cache, d)
    /\ since_return' = IF since_return + d >= ttl THEN ttl
                       ELSE since_return + d
    /\ UNCHANGED <<pc, phone_number, clicks, job_phone, response, run_id,
                   output_response, remote, status_response, backoff, sleeps,
                   reqs, inflight, ret, served, ui>>

Next ==
    \/ \E input \in PhoneInputs : ClickEmpty(input)
    \/ \E input \in PhoneInputs : ClickCached(input)
    \/ \E input \in PhoneInputs : ClickSubmit(input)
    \/ \E resp \in SubmitResponses : SubmitResponse(resp)
    \/ \E wellformed \in BOOLEAN : StatusResponse(wellformed)
    \/ SleepDone
    \/ \E resp \in OutputResponses : OutputResponse(resp)
    \/ \E next \in RunStates : RemoteStep(next)
    \/ \E d \in Delays : Tick(d)

Spec == Init /\ [][Next]_vars

\* The steps that do not depend on the operator: time.sleep returns, and
\* the API answers a poll with a well-formed body and a get-output request
\* with some response.
LiveSpec ==
    /\ Init /\ [][Next]_vars
    /\ WF_vars(SleepDone)
    /\ WF_vars(StatusResponse(TRUE))
    /\ WF_vars(\E resp \in OutputResponses : OutputResponse(resp))

(***************************************************************************)
(* Properties.                                                             *)
(***************************************************************************)
\* The number of requests of one kind among the first n of reqs.
RECURSIVE CountReq(_, _)
CountReq(kind, n) ==
    IF n = 0 THEN 0
    ELSE CountReq(kind, n - 1) + (IF reqs[n] = kind THEN 1 ELSE 0)

\* A text that is empty or all whitespace, said without strip.
Blank(text) == \A i \in 1..Len(text) : text[i] \in {" ", "\t"}

\* The text is the number padded with whitespace on either side.
Padded(text, number) ==
    \E i \in 1..(Len(text) + 1) :
        /\ i + Len(number) - 1 <= Len(text)
        /\ Blank(SubSeq(text, 1, i - 1))
        /\ SubSeq(text, i, i + Len(number) - 1) = number
        /\ Blank(SubSeq(text, i + Len(number), Len(text)))

\* The handler has finished with a pair that run_notebook's body returned
\* after polling.
ReturnedFromPolling ==
    pc = "idle" /\ served = "fresh" /\ CountReq("status", Len(reqs)) > 0

\* C1: the requests of one invocation are one submit, first; then status
\* polls, only with a run_id from a 200 submit response; then at most one
\* get-output, last and right after a status poll; never two requests
\* outstanding, and never a second submit, whatever failed.
C1_LinearSequence ==
    /\ Cardinality(inflight) <= 1
    /\ inflight # {} => reqs # <<>> /\ inflight = {reqs[Len(reqs)]}
    /\ reqs # <<>> => reqs[1] = "submit"
    /\ CountReq("submit", Len(reqs)) <= 1
    /\ CountReq("output", Len(reqs)) <= 1
    /\ \A i \in 2..Len(reqs) :
          \/ reqs[i] = "status"
          \/ reqs[i] = "output" /\ i = Len(reqs) /\ reqs[i - 1] = "status"
    /\ Len(reqs) >= 2 =>
          /\ response.status_code = 200
          /\ response.has_run_id
          /\ run_id # 0

\* C1 witness: a finished invocation with submit, several polls, one output.
C1_Witness ==
    /\ pc = "idle"
    /\ served = "fresh"
    /\ Len(reqs) >= 4
    /\ reqs[Len(reqs)] = "output"

\* C1 witness of the failure case: a poll failed after two polls and the
\* invocation ended.
C1_WitnessFailedPoll ==
    /\ pc = "idle"
    /\ ui.kind = "exception"
    /\ CountReq("status", Len(reqs)) >= 2

\* C2: once a poll has been answered, the loop is left (for the output
\* fetch or the return) exactly when the last life_cycle_state fetched is
\* TERMINATED, SKIPPED or INTERNAL_ERROR; with any other it is sleeping or
\* polling again, unless a later poll raised.
C2_LeavesOnlyOnTerminal ==
    status_response # NoRun =>
        IF run_state \in {"TERMINATED", "SKIPPED", "INTERNAL_ERROR"}
        THEN pc = "output_wait" \/ ReturnedFromPolling
        ELSE \/ pc \in {"sleeping", "poll_wait"}
             \/ pc = "idle" /\ served = "none" /\ ui.kind = "exception"

\* C2 witness: a return from the polling path after a non-terminal state
\* had been observed.
C2_Witness ==
    /\ ReturnedFromPolling
    /\ run_state = "SKIPPED"
    /\ Len(sleeps) >= 2

\* C4: after a click on an empty or all-whitespace input nothing was
\* requested, no pair was obtained and only the warning is shown; requests
\* are issued only for a non-blank input, and the number submitted is the
\* input without its leading and trailing whitespace.
C4_BlankInputDoesNothing ==
    /\ (clicks > 0 /\ Blank(phone_number)) =>
          /\ ui = Warning
          /\ reqs = <<>>
          /\ inflight = {}
          /\ pc = "idle"
          /\ ret = NoRet
          /\ served = "none"
    /\ ui = Warning => Blank(phone_number)
    /\ reqs # <<>> =>
          /\ ~Blank(phone_number)
          /\ job_phone # <<>>
          /\ job_phone[1] \notin {" ", "\t"}
          /\ job_phone[Len(job_phone)] \notin {" ", "\t"}
          /\ Padded(phone_number, job_phone)

\* C4 witness: a whitespace-only input was clicked after an earlier check.
C4_Witness ==
    /\ clicks = 2
    /\ phone_number = <<" ", "\t">>
    /\ ui = Warning
    /\ cache # {}

\* C4 witness of the stripping: a padded input was submitted.
C4_WitnessStripped ==
    /\ phone_number = <<"\t", "8", " ", "8">>
    /\ job_phone = <<"8", " ", "8">>
    /\ pc = "submit_wait"

\* C5: after a submit response with a status other than 200 the invocation
\* is over with the pair ("FAILED", {"error": body}), the submit was the
\* only request, and the handler shows the body as an error message.
C5_RejectedSubmit ==
    response.status_code \notin {0, 200} =>
        /\ pc = "idle"
        /\ ret = [result |-> "FAILED",
                  output |-> [kind |-> "dict", keys |-> {"error"},
                              text |-> response.text]]
        /\ reqs = <<"submit">>
        /\ inflight = {}
        /\ ui = [kind |-> "st.error", prefix |-> "Error",
                 text |-> response.text]

\* C5 witness: a submit answered 500.
C5_Witness ==
    /\ response.status_code = 500
    /\ served = "fresh"
    /\ ui.kind = "st.error"

\* The script is inside the poll loop of run_notebook.
InLoop == pc \in {"poll_wait", "sleeping"}

\* The remote run has reached a final life_cycle_state.
RemoteDone ==
    remote.life_cycle_state \in {"TERMINATED", "SKIPPED", "INTERNAL_ERROR"}

\* C3: after a 200 submit response, the invocation ends if the remote run
\* reaches TERMINATED, SKIPPED or INTERNAL_ERROR (and then it does end), and
\* the loop is left in no other way than that or a poll that raised: there
\* is no limit on the polls and no timeout.
C3_ReturnsIffTerminal ==
    /\ (InLoop /\ RemoteDone) ~> (pc = "idle")
    /\ [][(InLoop /\ ~InLoop') =>
             \/ RemoteDone' /\ status_response' = remote'
             \/ pc' = "idle" /\ ui'.kind = "exception"]_vars

\* C3 witness: the loop ran to the bound on the sleeps before the remote
\* run finished and the invocation returned.
C3_Witness ==
    /\ ReturnedFromPolling
    /\ Len(sleeps) = MaxSleeps
    /\ RemoteDone

\* A payload that counts as empty in the handler's test.
EmptyPayload(v) ==
    \/ v.kind = "None"
    \/ v.kind = "str" /\ v.text = ""
    \/ v.kind = "dict" /\ v.keys = {}

\* C6: every check that got a pair other than SUCCESS with a non-empty
\* payload ends with an error message: the payload's error text if it has
\* an "error" entry, otherwise "Job failed: <result_state>".
C6_EveryFailureDisplayed ==
    (pc = "idle" /\ served \in {"fresh", "cache"}
       /\ ~(ret.result = "SUCCESS" /\ ~EmptyPayload(ret.output))) =>
        /\ ui.kind = "st.error"
        /\ IF ret.output.kind = "dict" /\ "error" \in ret.output.keys
           THEN ui.prefix = "Error" /\ ui.text = ret.output.text
           ELSE ui.prefix = "Job failed" /\ ui.text = ret.result

\* C7: a click on the number whose pair is on display, less than 300 s
\* after run_notebook returned that pair, issues no request and yields the
\* same pair; 300 s or more after, it submits a new job; and the second
\* click, on another number than the first, submits a new job.
C7_CachedWithinTtl ==
    [][(clicks' = clicks + 1 /\ ~Blank(phone_number')) =>
          /\ (served \in {"fresh", "cache"}
                /\ Padded(phone_number, job_phone)
                /\ Padded(phone_number', job_phone)) =>
                    IF since_return < 300
                    THEN /\ reqs' = <<>>
                         /\ pc' = "idle"
                         /\ ret' = ret
                         /\ ui' = ui
                         /\ served' = "cache"
                    ELSE /\ reqs' = <<"submit">>
                         /\ pc' = "submit_wait"
          /\ (clicks = 1 /\ ~Padded(phone_number', job_phone)) =>
                /\ reqs' = <<"submit">>
                /\ pc' = "submit_wait"]_vars

\* C7 witness: the pair of a rejected submit served from the cache 240 s
\* after it was returned, to a differently padded input.
C7_Witness ==
    /\ served = "cache"
    /\ ret.result = "FAILED"
    /\ ret.output.kind = "dict"
    /\ since_return = 240
    /\ phone_number = <<" ", "7", " ">>
    /\ reqs = <<>>

\* C8: the get-output request is issued exactly for result_state SUCCESS;
\* any other finished run returns (result_state, None), with UNKNOWN for a
\* missing result_state; SUCCESS with a non-200 output response returns
\* ("SUCCESS", None).
C8_OutputOnlyOnSuccess ==
    /\ CountReq("output", Len(reqs)) > 0 =>
          status_response.result_state = "SUCCESS"
    /\ ReturnedFromPolling =>
          /\ status_response.result_state = "SUCCESS"
                => CountReq("output", Len(reqs)) = 1
          /\ status_response.result_state \notin {"SUCCESS", "<missing>"}
                => ret = [result |-> status_response.result_state,
                          output |-> PyNone]
          /\ status_response.result_state = "<missing>"
                => ret = [result |-> "UNKNOWN", output |-> PyNone]
          /\ (status_response.result_state = "SUCCESS"
                /\ output_response.status_code # 200)
                => ret = [result |-> "SUCCESS", output |-> PyNone]

\* C8 witness: an INTERNAL_ERROR run without result_state returned.
C8_Witness ==
    /\ ReturnedFromPolling
    /\ run_state = "INTERNAL_ERROR"
    /\ ret.result = "UNKNOWN"
    /\ CountReq("output", Len(reqs)) = 0

\* C8 witness of the SUCCESS run whose output request was refused.
C8_WitnessRefused ==
    /\ ReturnedFromPolling
    /\ output_response.status_code = 404
    /\ ret.result = "SUCCESS"

\* C9: after a 200 output response the result is SUCCESS and the output is
\* the decoded value of the result string, the string itself if it does
\* not decode, and None if there is no result.
C9_DecodeOrRaw ==
    (pc = "idle" /\ served = "fresh" /\ output_response.status_code = 200) =>
        /\ ret.result = "SUCCESS"
        /\ IF output_response.has_output /\ output_response.has_result
           THEN IF json_loads(output_response.result).ok
                THEN ret.output = json_loads(output_response.result).value
                ELSE ret.output = [kind |-> "str", keys |-> {},
                                   text |-> output_response.result]
           ELSE ret.output = PyNone

\* C9 witness: a result that is not JSON came back as it was.
C9_Witness ==
    /\ pc = "idle"
    /\ served = "fresh"
    /\ output_response.result = S_RAW
    /\ ret.output.kind = "str"
    /\ ret.output.text = "done, not json"

\* C9 witness of the decoding: a JSON object came back as a dict.
C9_WitnessDecoded ==
    /\ pc = "idle"
    /\ served = "fresh"
    /\ output_response.result = S_ERR
    /\ ret.output.kind = "dict"

RECURSIVE Pow(_, _)
Pow(b, e) == IF e = 0 THEN 1 ELSE b * Pow(b, e - 1)

\* C10: the k-th sleep lasts min(1.5^(k-1), 5) seconds: 1 second first,
\* never less than the one before, never more than 5, and 5 from the 5th
\* on; and the sleeps are exactly the gaps between consecutive polls.
C10_CappedBackoff ==
    /\ \A k \in 1..Len(sleeps) :
          /\ IF Pow(3, k - 1) <= 5 * Pow(2, k - 1)
             THEN sleeps[k][1] * Pow(2, k - 1) = Pow(3, k - 1) * sleeps[k][2]
             ELSE sleeps[k][1] = 5 * sleeps[k][2]
          /\ sleeps[k][2] > 0
          /\ sleeps[k][1] <= 5 * sleeps[k][2]
          /\ k = 1 => sleeps[k][1] = sleeps[k][2]
          /\ k >= 5 => sleeps[k][1] = 5 * sleeps[k][2]
          /\ k > 1 => sleeps[k - 1][1] * sleeps[k][2]
                          <= sleeps[k][1] * sleeps[k - 1][2]
    /\ pc = "sleeping" => Len(sleeps) = CountReq("status", Len(reqs))
    /\ (pc # "sleeping" /\ CountReq("status", Len(reqs)) > 0) =>
          Len(sleeps) = CountReq("status", Len(reqs)) - 1
    /\ CountReq("status", Len(reqs)) = 0 => sleeps = <<>>

\* C10 witness: six sleeps were made and the run then finished.
C10_Witness ==
    /\ ReturnedFromPolling
    /\ Len(sleeps) >= 6
    /\ sleeps[4] = <<27, 8>>
    /\ sleeps[5] = <<5, 1>>

\* C11: a SUCCESS payload that lacks only time_taken_seconds is rendered
\* like any valid result (with "?" for the processing time): the handler
\* ends in the result view, not in an exception.
C11_MissingTimeStillRenders ==
    (pc = "idle" /\ served \in {"fresh", "cache"}
       /\ ret.result = "SUCCESS"
       /\ ret.output.kind = "dict"
       /\ ret.output.keys =
              {"prediction", "anomaly_score", "feature_importance",
               "feature_contributions", "base_value"}) =>
        ui.kind = "success"

\* C12: a poll answered without state.life_cycle_state ends the invocation
\* there with an exception: no pair, no further request or sleep, the cache
\* as it was; and the next check of the same number submits a job.
C12_BadPollAborts ==
    /\ [][(pc = "poll_wait" /\ pc' = "idle"
             /\ status_response'.life_cycle_state
                    \notin {"TERMINATED", "SKIPPED", "INTERNAL_ERROR"}) =>
             /\ ui'.kind = "exception"
             /\ ret' = NoRet
             /\ served' = "none"
             /\ cache' = cache
             /\ reqs' = reqs
             /\ sleeps' = sleeps
             /\ inflight' = {}
             /\ \A e \in cache' : e.key # job_phone]_vars
    /\ [][(pc = "idle" /\ served = "none" /\ ui.kind = "exception"
             /\ CountReq("status", Len(reqs)) > 0
             /\ clicks' = clicks + 1
             /\ Padded(phone_number', job_phone)) =>
             /\ reqs' = <<"submit">>
             /\ pc' = "submit_wait"]_vars

\* C12 witness: the second poll of the first check was answered without the
\* state, after one sleep, and the invocation ended with the exception.
C12_Witness ==
    /\ pc = "idle"
    /\ clicks = 1
    /\ served = "none"
    /\ ui = [kind |-> "exception", prefix |-> "", text |-> "KeyError"]
    /\ CountReq("status", Len(reqs)) = 2
    /\ Len(sleeps) = 1
    /\ cache = {}

====
